---- MODULE Spec2Model ----
(***************************************************************************)
(* Model of data-shaper-hub: the CSV ingestion of FileUpload (parseCSV,    *)
(* checkDataQuality, handleFileSelect), the file collection of Index       *)
(* (handleFileUpload, handleFileSelect, handleFileDelete) and the quality  *)
(* report of QualityCheck (analyzeQuality, qualityScore).                  *)
(*                                                                         *)
(* A JavaScript string is a sequence of one-character strings, so that     *)
(* split, trim, toLowerCase, length and includes are computed on the text. *)
(***************************************************************************)
EXTENDS Integers, Sequences, FiniteSets, TLC

VARIABLES
    uploadedFiles,  \* Index: useState<UploadedFile[]>([])
    selectedFile,   \* Index: useState<UploadedFile | null>(null)
    isProcessing,   \* FileUpload: useState(false)
    upload,         \* FileUpload.handleFileSelect: the pending async call
    parsed,         \* handleFileSelect: content and data of the latest parse
    toast,          \* title of the last toast shown ("none" before any)
    now,            \* Date.now(), in units of the 1500 ms processing delay
    report,         \* QualityCheck: issues, totalRows, qualityScore as rendered
    searchTerm,     \* DataPreview: useState("")
    projIdFilter,   \* DataPreview: useState<string>("")
    sourceFilter,   \* DataPreview: useState<string>("")
    sortField,      \* DataPreview: useState<SortField | null>(null)
    sortDirection,  \* DataPreview: useState<SortDirection>(null)
    currentPage,    \* DataPreview: useState(1)
    preview         \* DataPreview: filteredData, totalPages, paginatedData as rendered

\* the state of DataPreview
viewVars == <<searchTerm, projIdFilter, sourceFilter, sortField, sortDirection, currentPage>>

vars == <<uploadedFiles, selectedFile, isProcessing, upload, parsed, toast, now, report,
          viewVars, preview>>

----------------------------------------------------------------------------
(* Bounds of the model.                                                    *)

\* data lines after the header in a text of the parser family
MaxDataLines == 2
\* data lines in a text of the quality family
MaxQualityRows == 1
\* rows of a file of the score family
MaxScoreRows == 40
\* uploads started in one run of the application
MaxClock == 3
\* rows of a file of the query family
MaxQueryRows == 3
\* rows of the longest file of the paged family beyond two full pages
MaxExtraRows == 5
\* the highest page number of the paged family
MaxPage == 4
\* rows of the long file of the view runs beyond one full page
MaxViewExtraRows == 1

----------------------------------------------------------------------------
(* JavaScript string primitives.                                           *)

UpperCase == <<"A","B","C","D","E","F","G","H","I","J","K","L","M",
               "N","O","P","Q","R","S","T","U","V","W","X","Y","Z">>
LowerCase == <<"a","b","c","d","e","f","g","h","i","j","k","l","m",
               "n","o","p","q","r","s","t","u","v","w","x","y","z">>

\* String.prototype.toLowerCase, one character
ToLowerChar(c) ==
    IF \E i \in 1..Len(UpperCase) : UpperCase[i] = c
    THEN LowerCase[CHOOSE i \in 1..Len(UpperCase) : UpperCase[i] = c]
    ELSE c

\* String.prototype.toLowerCase
toLowerCase(s) == [i \in 1..Len(s) |-> ToLowerChar(s[i])]

\* the white space String.prototype.trim removes
IsSpace(c) == c \in {" ", "\t", "\r", "\n"}

\* String.prototype.trim: the text between the first and the last character
\* that is not white space
RECURSIVE FirstNonSpace(_, _)
FirstNonSpace(s, i) ==
    IF i > Len(s) \/ ~IsSpace(s[i]) THEN i ELSE FirstNonSpace(s, i + 1)

RECURSIVE LastNonSpace(_, _)
LastNonSpace(s, i) ==
    IF i < 1 \/ ~IsSpace(s[i]) THEN i ELSE LastNonSpace(s, i - 1)

trim(s) == SubSeq(s, FirstNonSpace(s, 1), LastNonSpace(s, Len(s)))

\* the index of the first separator at or after i, Len(s) + 1 if none
NextSep(s, sep, i) ==
    IF \E j \in i..Len(s) : s[j] = sep
    THEN CHOOSE j \in i..Len(s) : s[j] = sep /\ \A k \in i..(j - 1) : s[k] # sep
    ELSE Len(s) + 1

\* String.prototype.split(sep) for a one-character separator: the pieces
\* between the separators, an empty string giving one empty piece
RECURSIVE SplitFrom(_, _, _)
SplitFrom(s, sep, i) ==
    LET j == NextSep(s, sep, i)
    IN  <<SubSeq(s, i, j - 1)>> \o (IF j > Len(s) THEN <<>> ELSE SplitFrom(s, sep, j + 1))

split(s, sep) == SplitFrom(s, sep, 1)

\* String.prototype.includes for a one-character needle
includesChar(s, c) == \E i \in 1..Len(s) : s[i] = c

\* String.prototype.endsWith
endsWith(s, suffix) ==
    /\ Len(suffix) <= Len(s)
    /\ SubSeq(s, Len(s) - Len(suffix) + 1, Len(s)) = suffix

\* Array.prototype.indexOf: 0-based index of the first match, -1 if none
indexOf(arr, x) ==
    IF \E i \in 1..Len(arr) : arr[i] = x
    THEN (CHOOSE i \in 1..Len(arr) : arr[i] = x /\ \A j \in 1..(i - 1) : arr[j] # x) - 1
    ELSE -1

----------------------------------------------------------------------------
(* FileUpload.parseCSV                                                     *)

sProjId   == <<"p","r","o","j","_","i","d">>
sQuestion == <<"q","u","e","s","t","i","o","n">>
sOutput   == <<"o","u","t","p","u","t">>
sUpdated  == <<"u","p","d","a","t","e","d">>
sSource   == <<"s","o","u","r","c","e">>

\* values[h] || values[k] || '' with h = headers.indexOf(name): an index
\* outside the array reads undefined, and undefined and '' are both falsy
PickValue(values, h, k) ==
    IF h >= 0 /\ h < Len(values) /\ values[h + 1] # <<>> THEN values[h + 1]
    ELSE IF k < Len(values) /\ values[k + 1] # <<>> THEN values[k + 1]
    ELSE <<>>

\* the object pushed for one data line
MakeRow(headers, values) ==
    [ proj_id  |-> PickValue(values, indexOf(headers, sProjId), 0),
      question |-> PickValue(values, indexOf(headers, sQuestion), 1),
      output   |-> PickValue(values, indexOf(headers, sOutput), 2),
      updated  |-> PickValue(values, indexOf(headers, sUpdated), 3),
      source   |-> PickValue(values, indexOf(headers, sSource), 4) ]

\* a variant of the split of a data line without the trim of its values
LineValuesUntrimmed(line) == split(line, ",")

\* lines[i].split(',').map(v => v.trim())
LineValues(line) ==
    LET cells == split(line, ",") IN [i \in 1..Len(cells) |-> trim(cells[i])]

\* the minimum number of values of a data line that is kept
MinValues == 5

\* content.split('\n').filter(line => line.trim())
NonBlankLines(content) ==
    LET NonBlank(line) == trim(line) # <<>>
    IN  SelectSeq(split(content, "\n"), NonBlank)

\* a variant of the loop that ends at the first short line (break) instead
\* of passing over it
RECURSIVE ParseLinesBreak(_, _, _)
ParseLinesBreak(headers, lines, i) ==
    IF i > Len(lines) THEN <<>>
    ELSE LET values == LineValues(lines[i])
         IN  IF Len(values) >= MinValues
             THEN <<MakeRow(headers, values)>> \o ParseLinesBreak(headers, lines, i + 1)
             ELSE <<>>

\* the for loop over lines[1..]: one row per line with at least 5 values
RECURSIVE ParseLines(_, _, _)
ParseLines(headers, lines, i) ==
    IF i > Len(lines) THEN <<>>
    ELSE LET values == LineValues(lines[i])
         IN  (IF Len(values) >= MinValues THEN <<MakeRow(headers, values)>> ELSE <<>>)
             \o ParseLines(headers, lines, i + 1)

\* lines[0].split(',').map(h => h.trim().toLowerCase())
HeaderNames(line) ==
    LET cells == split(line, ",") IN [i \in 1..Len(cells) |-> toLowerCase(trim(cells[i]))]

parseCSV(content) ==
    LET lines == NonBlankLines(content)
    IN  IF Len(lines) < 2 THEN <<>>
        ELSE ParseLines(HeaderNames(lines[1]), lines, 2)

----------------------------------------------------------------------------
(* Dates: new Date(dateString).getTime()                                   *)

d2023 == <<"2","0","2","3">>
d2024 == <<"2","0","2","4">>

\* new Date(s).getTime() for the date strings of the inputs, in seconds (the
\* millisecond value exceeds 32-bit integers): a year-only ISO string
\* is the UTC start of that year; every other string drawn by the inputs is
\* empty or made of letters, '?' and spaces, which parses as NaN
DateGetTime(s) ==
    CASE s = d2023 -> [isNaN |-> FALSE, time |-> 1672531200]
      [] s = d2024 -> [isNaN |-> FALSE, time |-> 1704067200]
      [] OTHER     -> [isNaN |-> TRUE,  time |-> 0]

\* FileUpload.isValidDate, QualityCheck.isValidDate
isValidDate(dateString) == ~DateGetTime(dateString).isNaN

----------------------------------------------------------------------------
(* FileUpload.checkDataQuality                                             *)

sQuestionMark == <<"?">>

\* the minimum length of a question that is not too short
MinQuestionLength == 10

\* a variant of the forEach body that adds one for a row failing any check
RowIssueCountOnce(row) ==
    IF \/ row.proj_id = <<>> \/ row.question = <<>> \/ row.output = <<>>
       \/ row.updated = <<>> \/ row.source = <<>>
       \/ Len(row.question) < MinQuestionLength \/ trim(row.question) = sQuestionMark
       \/ includesChar(row.output, "?")
       \/ (row.updated # <<>> /\ ~isValidDate(row.updated))
    THEN 1 ELSE 0

\* the number the forEach body adds to issues for one row: one per check
RowIssueCount(row) ==
      (IF row.proj_id = <<>> \/ row.question = <<>> \/ row.output = <<>>
          \/ row.updated = <<>> \/ row.source = <<>> THEN 1 ELSE 0)
    + (IF Len(row.question) < MinQuestionLength \/ trim(row.question) = sQuestionMark
       THEN 1 ELSE 0)
    + (IF row.output = <<>> \/ includesChar(row.output, "?") THEN 1 ELSE 0)
    + (IF row.updated # <<>> /\ ~isValidDate(row.updated) THEN 1 ELSE 0)

\* the count added for the rows lo..hi (1-based); the range is halved
\* rather than walked to keep the evaluation shallow
RECURSIVE CountRange(_, _, _)
CountRange(data, lo, hi) ==
    IF lo > hi THEN 0
    ELSE IF lo = hi THEN RowIssueCount(data[lo])
    ELSE LET mid == (lo + hi) \div 2
         IN  CountRange(data, lo, mid) + CountRange(data, mid + 1, hi)

checkDataQuality(data) == CountRange(data, 1, Len(data))

----------------------------------------------------------------------------
(* QualityCheck.analyzeQuality and the quality score                       *)

\* Object.entries(row): the keys in insertion order
RowKeys == <<"proj_id", "question", "output", "updated", "source">>

Issue(type, message, index, column) ==
    [type |-> type, message |-> message, rowIndex |-> index + 2, column |-> column]

\* a variant of the inner forEach that stops after the first empty field
EmptyCellIssuesFirst(row, index) ==
    LET IsEmpty(key) == row[key] = <<>> \/ trim(row[key]) = <<>>
        empties == SelectSeq(RowKeys, IsEmpty)
    IN  IF empties = <<>> THEN <<>>
        ELSE <<Issue("empty_cell", <<"Empty ", empties[1], " field">>, index, empties[1])>>

\* the empty_cell issues of one row: the inner forEach over Object.entries
EmptyCellIssues(row, index) ==
    LET IsEmpty(key) == row[key] = <<>> \/ trim(row[key]) = <<>>
        empties == SelectSeq(RowKeys, IsEmpty)
    IN  [i \in 1..Len(empties) |->
            Issue("empty_cell", <<"Empty ", empties[i], " field">>, index, empties[i])]

\* the invalid_date issue of one row
InvalidDateIssues(row, index) ==
    IF row.updated # <<>> /\ ~isValidDate(row.updated)
    THEN <<Issue("invalid_date", <<"Invalid date format: ", row.updated>>, index, "updated")>>
    ELSE <<>>

\* the short_question issue of one row for the length of the question
ShortQuestionIssues(row, index) ==
    IF row.question # <<>> /\ Len(row.question) < MinQuestionLength
    THEN <<Issue("short_question",
                 <<"Question too short (", ToString(Len(row.question)), " chars)">>,
                 index, "question")>>
    ELSE <<>>

\* a variant that tests for "?" only when the length test did not fire
\* (else if)
OnlyQuestionMarkIssuesElse(row, index) ==
    IF row.question # <<>> /\ Len(row.question) >= MinQuestionLength
       /\ trim(row.question) = sQuestionMark
    THEN <<Issue("short_question", <<"Question is only \"?\"">>, index, "question")>>
    ELSE <<>>

\* the short_question issue of one row for a question that is only "?"
OnlyQuestionMarkIssues(row, index) ==
    IF row.question # <<>> /\ trim(row.question) = sQuestionMark
    THEN <<Issue("short_question", <<"Question is only \"?\"">>, index, "question")>>
    ELSE <<>>

\* a variant that leaves the missing output to the empty_cell check
MissingOutputIssuesNone(row, index) == <<>>

\* the missing_output issue of one row
MissingOutputIssues(row, index) ==
    IF row.output = <<>> \/ trim(row.output) = <<>>
    THEN <<Issue("missing_output", <<"Missing output data">>, index, "output")>>
    ELSE <<>>

\* a variant that flags an output only when it is "?" and nothing else
QuestionMarkOutputIssuesExact(row, index) ==
    IF row.output # <<>> /\ row.output = sQuestionMark
    THEN <<Issue("questionmark_output",
                 <<"Output contains \"?\" - may need review">>, index, "output")>>
    ELSE <<>>

\* the questionmark_output issue of one row
QuestionMarkOutputIssues(row, index) ==
    IF row.output # <<>> /\ includesChar(row.output, "?")
    THEN <<Issue("questionmark_output",
                 <<"Output contains \"?\" - may need review">>, index, "output")>>
    ELSE <<>>

\* a variant of the forEach body with the output checks placed before the
\* question checks
RowIssuesOutputFirst(row, index) ==
       EmptyCellIssues(row, index)
    \o InvalidDateIssues(row, index)
    \o MissingOutputIssues(row, index)
    \o QuestionMarkOutputIssues(row, index)
    \o ShortQuestionIssues(row, index)
    \o OnlyQuestionMarkIssues(row, index)

\* the issues the forEach body pushes for the row at 0-based index
RowIssues(row, index) ==
       EmptyCellIssues(row, index)
    \o InvalidDateIssues(row, index)
    \o ShortQuestionIssues(row, index)
    \o OnlyQuestionMarkIssues(row, index)
    \o MissingOutputIssues(row, index)
    \o QuestionMarkOutputIssues(row, index)

\* the issues pushed for the rows lo..hi (1-based), in row order; the range
\* is halved rather than walked to keep the evaluation shallow
RECURSIVE AnalyzeRange(_, _, _)
AnalyzeRange(data, lo, hi) ==
    IF lo > hi THEN <<>>
    ELSE IF lo = hi THEN RowIssues(data[lo], lo - 1)
    ELSE LET mid == (lo + hi) \div 2
         IN  AnalyzeRange(data, lo, mid) \o AnalyzeRange(data, mid + 1, hi)

analyzeQuality(data) == AnalyzeRange(data, 1, Len(data))

(* JavaScript numbers are IEEE 754 doubles: cleanRows / totalRows and its    *)
(* product with 100 are each rounded to 53 significant bits, ties to even.  *)
(* A double is [sign, mant, exp]: mant is 53 bits, most significant first,  *)
(* the first one 1, and the value is sign * mant * 2^exp; mant is <<>> for  *)
(* zero. The bits are computed in chunks of 14, which keeps every           *)
(* intermediate number a small integer; this covers totalRows below 2^16    *)
(* and quotients below 2^31.                                                *)

\* the number of significant bits of a double
MantBits == 53

\* the bits of one chunk of the computation
ChunkBits == 14

\* the last width binary digits of n >= 0, most significant first
PadBits(n, width) == [i \in 1..width |-> (n \div (2 ^ (width - i))) % 2]

\* the number with the binary digits b
RECURSIVE BitsInt(_)
BitsInt(b) ==
    IF b = <<>> THEN 0
    ELSE IF Len(b) = 1 THEN b[1]
    ELSE LET half == Len(b) \div 2
         IN  BitsInt(SubSeq(b, 1, half)) * (2 ^ (Len(b) - half))
             + BitsInt(SubSeq(b, half + 1, Len(b)))

\* round to nearest, ties to even: bits holds the 53 bits kept, guard the
\* next bit, sticky whether any later bit is set; exp is the exponent of the
\* last bit kept
RoundToEven(sign, bits, guard, sticky, exp) ==
    IF guard = 1 /\ (sticky \/ bits[MantBits] = 1)
    THEN IF \A i \in 1..MantBits : bits[i] = 1
         THEN [sign |-> sign, mant |-> [i \in 1..MantBits |-> IF i = 1 THEN 1 ELSE 0],
               exp |-> exp + 1]
         ELSE LET k == CHOOSE i \in 1..MantBits :
                          bits[i] = 0 /\ \A j \in (i + 1)..MantBits : bits[j] = 1
              IN  [sign |-> sign,
                   mant |-> [i \in 1..MantBits |-> IF i < k THEN bits[i]
                                                  ELSE IF i = k THEN 1 ELSE 0],
                   exp |-> exp]
    ELSE [sign |-> sign, mant |-> bits, exp |-> exp]

\* the double nearest to the number with the binary digits all, not all 0,
\* whose last digit has the exponent expLast; more says that the number has
\* further non-zero digits after them
ToDouble(sign, all, expLast, more) ==
    LET first  == CHOOSE i \in 1..Len(all) : all[i] = 1 /\ \A j \in 1..(i - 1) : all[j] = 0
        Bit(i) == IF i <= Len(all) THEN all[i] ELSE 0
    IN  RoundToEven(sign,
                    [i \in 1..MantBits |-> Bit(first + i - 1)],
                    Bit(first + MantBits),
                    more \/ \E i \in (first + MantBits + 1)..Len(all) : all[i] = 1,
                    expLast + Len(all) - (first + MantBits - 1))

FloatZero == [sign |-> 1, mant |-> <<>>, exp |-> 0]

\* the double c / t of two integers, t > 0: the integer part and six chunks
\* of the binary expansion of the fraction, by long division
FloatDiv(c, t) ==
    IF c = 0 THEN FloatZero
    ELSE LET a  == IF c < 0 THEN -c ELSE c
             w  == 2 ^ ChunkBits
             r0 == a % t
             r1 == (r0 * w) % t
             r2 == (r1 * w) % t
             r3 == (r2 * w) % t
             r4 == (r3 * w) % t
             r5 == (r4 * w) % t
             r6 == (r5 * w) % t
             all == PadBits(a \div t, 31)
                    \o PadBits((r0 * w) \div t, ChunkBits) \o PadBits((r1 * w) \div t, ChunkBits)
                    \o PadBits((r2 * w) \div t, ChunkBits) \o PadBits((r3 * w) \div t, ChunkBits)
                    \o PadBits((r4 * w) \div t, ChunkBits) \o PadBits((r5 * w) \div t, ChunkBits)
         IN  ToDouble(IF c < 0 THEN -1 ELSE 1, all, -6 * ChunkBits, r6 # 0)

\* the double x * k for an integer 0 < k < 2^16: the exact product of the
\* mantissa, chunk by chunk from the last, rounded
FloatMul(x, k) ==
    IF x.mant = <<>> THEN x
    ELSE LET w  == 2 ^ ChunkBits
             v0 == k * BitsInt(SubSeq(x.mant, MantBits - ChunkBits + 1, MantBits))
             v1 == k * BitsInt(SubSeq(x.mant, MantBits - 2 * ChunkBits + 1, MantBits - ChunkBits))
                   + v0 \div w
             v2 == k * BitsInt(SubSeq(x.mant, MantBits - 3 * ChunkBits + 1, MantBits - 2 * ChunkBits))
                   + v1 \div w
             v3 == k * BitsInt(SubSeq(x.mant, 1, MantBits - 3 * ChunkBits)) + v2 \div w
             all == PadBits(v3, 31) \o PadBits(v2 % w, ChunkBits)
                    \o PadBits(v1 % w, ChunkBits) \o PadBits(v0 % w, ChunkBits)
         IN  ToDouble(x.sign, all, x.exp, FALSE)

\* Math.round(x) for a double below 2^31 in size: the nearest integer, a
\* half going up (towards plus infinity)
MathRound(x) ==
    IF x.mant = <<>> THEN 0
    ELSE LET f       == -x.exp
             int     == IF f >= MantBits THEN 0
                        ELSE IF f <= 0 THEN BitsInt(x.mant) * (2 ^ (-f))
                        ELSE BitsInt(SubSeq(x.mant, 1, MantBits - f))
             half    == f >= 1 /\ f <= MantBits /\ x.mant[MantBits - f + 1] = 1
             beyond  == IF f > MantBits THEN TRUE
                        ELSE \E i \in (MantBits - f + 2)..MantBits : i >= 1 /\ x.mant[i] = 1
         IN  IF x.sign > 0
             THEN int + (IF half THEN 1 ELSE 0)
             ELSE IF half /\ beyond THEN -int - 1 ELSE -int

\* qualityScore = totalRows > 0 ? Math.round((cleanRows / totalRows) * 100) : 100
QualityScore(totalRows, issueCount) ==
    LET cleanRows == totalRows - issueCount
    IN  IF totalRows > 0 THEN MathRound(FloatMul(FloatDiv(cleanRows, totalRows), 100)) ELSE 100

\* what QualityCheck renders for the selected file; Index mounts it only
\* while a file is selected
NoFile == [isNull |-> TRUE]

Render(file) ==
    IF file = NoFile THEN [mounted |-> FALSE]
    ELSE LET issues == analyzeQuality(file.data)
         IN  [ mounted      |-> TRUE,
               issues       |-> issues,
               totalRows    |-> Len(file.data),
               qualityScore |-> QualityScore(Len(file.data), Len(issues)) ]

----------------------------------------------------------------------------
(* DataPreview: filteredData and the pagination                            *)

\* the value of a state that holds no sort field or no sort direction
null == "null"

\* the rows of a page
itemsPerPage == 20

\* String.prototype.includes
includes(s, sub) ==
    \E i \in 0..(Len(s) - Len(sub)) : SubSeq(s, i + 1, i + Len(sub)) = sub

Digit == <<"0","1","2","3","4","5","6","7","8","9">>

\* the primary weight of a letter or a digit in the collation of
\* localeCompare: digits before letters, a letter and its capital alike
CollationWeight ==
    [c \in {Digit[i] : i \in 1..Len(Digit)} \cup {LowerCase[i] : i \in 1..Len(LowerCase)}
            \cup {UpperCase[i] : i \in 1..Len(UpperCase)} |->
        LET l == ToLowerChar(c)
        IN  IF \E i \in 1..Len(Digit) : Digit[i] = l
            THEN CHOOSE i \in 1..Len(Digit) : Digit[i] = l
            ELSE Len(Digit) + (CHOOSE i \in 1..Len(LowerCase) : LowerCase[i] = l)]

\* String.prototype.localeCompare for strings of letters and digits, as -1,
\* 0 or 1: the first difference of primary weight decides, then the length,
\* then the first difference of case, the small letter first
localeCompare(a, b) ==
    LET common  == IF Len(a) < Len(b) THEN Len(a) ELSE Len(b)
        Differ(i) == CollationWeight[a[i]] # CollationWeight[b[i]]
    IN  IF a = b THEN 0
        ELSE IF \E i \in 1..common : Differ(i)
        THEN LET i == CHOOSE k \in 1..common : Differ(k) /\ \A j \in 1..(k - 1) : ~Differ(j)
             IN  IF CollationWeight[a[i]] < CollationWeight[b[i]] THEN -1 ELSE 1
        ELSE IF Len(a) # Len(b) THEN (IF Len(a) < Len(b) THEN -1 ELSE 1)
        ELSE LET i == CHOOSE k \in 1..common : a[k] # b[k] /\ \A j \in 1..(k - 1) : a[j] = b[j]
             IN  IF ToLowerChar(a[i]) = a[i] THEN -1 ELSE 1

\* the comparator handed to sort: the difference of the timestamps for the
\* updated field (NaN, which sort takes as 0, when either date is invalid),
\* localeCompare for the other fields, negated for 'desc'
CompareRows(a, b, field, direction) ==
    IF field = "updated"
    THEN LET aDate == DateGetTime(a[field])
             bDate == DateGetTime(b[field])
         IN  IF aDate.isNaN \/ bDate.isNaN THEN 0
             ELSE IF direction = "asc" THEN aDate.time - bDate.time
             ELSE bDate.time - aDate.time
    ELSE LET result == localeCompare(a[field], b[field])
         IN  IF direction = "asc" THEN result ELSE -result

\* a variant of the sort that orders rows that compare equal by their
\* original places only when ascending, and by the opposite when descending
SortedCopyTiesReversed(rows, field, direction) ==
    LET n == Len(rows)
        Before(i, j) ==
            LET c == CompareRows(rows[i], rows[j], field, direction)
            IN  c < 0 \/ (c = 0 /\ IF direction = "asc" THEN i < j ELSE i > j)
        place == [i \in 1..n |-> 1 + Cardinality({j \in 1..n : Before(j, i)})] \o <<>>
    IN  [k \in 1..n |-> rows[CHOOSE i \in 1..n : place[i] = k]]

\* Array.prototype.sort on a copy of the rows: the sort is stable, so with a
\* comparator that orders the rows consistently (as it does unless an
\* invalid date meets two different valid ones) a row comes before another
\* iff it compares lower, or compares equal and stood before it. The places
\* are held as a tuple, which is computed once
SortedCopy(rows, field, direction) ==
    LET n == Len(rows)
        Before(i, j) ==
            LET c == CompareRows(rows[i], rows[j], field, direction)
            IN  c < 0 \/ (c = 0 /\ i < j)
        place == [i \in 1..n |-> 1 + Cardinality({j \in 1..n : Before(j, i)})] \o <<>>
    IN  [k \in 1..n |-> rows[CHOOSE i \in 1..n : place[i] = k]]

\* a variant of the search stage that looks at every field of the row
SearchRowsAnyField(rows, term) ==
    LET Keep(row) == \E i \in 1..Len(RowKeys) :
                         includes(toLowerCase(row[RowKeys[i]]), toLowerCase(term))
    IN  IF term # <<>> THEN SelectSeq(rows, Keep) ELSE rows

\* the search stage: rows whose question or output holds the search text,
\* both taken to lower case
SearchRows(rows, term) ==
    LET Keep(row) == \/ includes(toLowerCase(row.question), toLowerCase(term))
                     \/ includes(toLowerCase(row.output), toLowerCase(term))
    IN  IF term # <<>> THEN SelectSeq(rows, Keep) ELSE rows

\* the project filter stage
ProjIdRows(rows, projId) ==
    LET Keep(row) == row.proj_id = projId
    IN  IF projId # <<>> THEN SelectSeq(rows, Keep) ELSE rows

\* the source filter stage
SourceRows(rows, source) ==
    LET Keep(row) == row.source = source
    IN  IF source # <<>> THEN SelectSeq(rows, Keep) ELSE rows

\* the sort stage
SortRows(rows, field, direction) ==
    IF field # null /\ direction # null
    THEN SortedCopy(rows, field, direction)
    ELSE rows

\* the useMemo of filteredData
filteredData(data, term, projId, source, field, direction) ==
    SortRows(SourceRows(ProjIdRows(SearchRows(data, term), projId), source), field, direction)

\* Math.ceil(length / itemsPerPage)
totalPages(length) == (length + itemsPerPage - 1) \div itemsPerPage

\* a variant of slice that, when end lies past the last item, returns the
\* last end - start items
sliceFilled(arr, start, end) ==
    IF end <= Len(arr) THEN SubSeq(arr, start + 1, end)
    ELSE SubSeq(arr, IF Len(arr) - (end - start) < 0 THEN 1 ELSE Len(arr) - (end - start) + 1,
                Len(arr))

\* Array.prototype.slice(start, end) for 0 <= start <= end: the items at the
\* 0-based indices start .. end - 1 that exist
slice(arr, start, end) ==
    SubSeq(arr, start + 1, IF end < Len(arr) THEN end ELSE Len(arr))

\* [...new Set(values.filter(Boolean))]: the non-empty values, each once, in
\* the order of their first occurrence
UniqueValues(data, key) ==
    LET First(i) == data[i][key] # <<>> /\ \A j \in 1..(i - 1) : data[j][key] # data[i][key]
        firsts == SelectSeq([i \in 1..Len(data) |-> i], First)
    IN  [k \in 1..Len(firsts) |-> data[firsts[k]][key]]

\* a variant of the memo that calls sort on filtered itself, which is the
\* array file.data when no filter stage has run
QueryArraysSortInPlace(data, term, projId, source, field, direction) ==
    LET filtered == filteredData(data, term, projId, source, field, direction)
        alias    == term = <<>> /\ projId = <<>> /\ source = <<>>
                    /\ field # null /\ direction # null
    IN  [data |-> IF alias THEN filtered ELSE data, filtered |-> filtered]

\* the arrays after the memo has run: data, the array file.data, and
\* filtered, the array returned. filter returns a new array and sort is
\* called on the copy [...filtered], so no stage writes to file.data
QueryArrays(data, term, projId, source, field, direction) ==
    [data |-> data, filtered |-> filteredData(data, term, projId, source, field, direction)]

\* the pagination of the array the memo returned
PreviewOf(arrays, page) ==
    [ mounted       |-> TRUE,
      data          |-> arrays.data,
      filteredData  |-> arrays.filtered,
      totalPages    |-> totalPages(Len(arrays.filtered)),
      startIndex    |-> (page - 1) * itemsPerPage,
      paginatedData |-> slice(arrays.filtered, (page - 1) * itemsPerPage,
                              (page - 1) * itemsPerPage + itemsPerPage) ]

\* what DataPreview renders for the selected file and its state; Index
\* mounts it only while a file is selected
Preview(file, term, projId, source, field, direction, page) ==
    IF file = NoFile THEN [mounted |-> FALSE]
    ELSE PreviewOf(QueryArrays(file.data, term, projId, source, field, direction), page)

\* the render of DataPreview that follows a change of its props or state
RenderPreview ==
    preview' = Preview(selectedFile', searchTerm', projIdFilter', sourceFilter',
                       sortField', sortDirection', currentPage')

\* the state DataPreview is mounted with
InitialView ==
    /\ searchTerm = <<>>
    /\ projIdFilter = <<>>
    /\ sourceFilter = <<>>
    /\ sortField = null
    /\ sortDirection = null
    /\ currentPage = 1

\* the state of DataPreview across a change of the selected file: it is
\* kept while a file stays selected, whichever file it is, and dropped with
\* the component when none is; the state it is next mounted with stands
\* for the dropped one
MountView ==
    IF selectedFile' = NoFile
    THEN /\ searchTerm' = <<>>
         /\ projIdFilter' = <<>>
         /\ sourceFilter' = <<>>
         /\ sortField' = null
         /\ sortDirection' = null
         /\ currentPage' = 1
    ELSE UNCHANGED viewVars

----------------------------------------------------------------------------
(* FileUpload.handleFileSelect and the handlers of Index                   *)

sCsvSuffix == <<".","c","s","v">>

Idle == [pc |-> "idle"]

\* FileManager.getStatusBadge: the text of the badge of a file of the list,
\* "issues" standing for the badge that shows the number of issues
getStatusBadge(file) == IF file.qualityIssues > 0 THEN "issues" ELSE "Clean"

\* the UploadedFile object built after a successful parse; size, uploader,
\* description and tags are display metadata no operation reads
MakeFile(name, data, clock) ==
    LET qualityIssues == checkDataQuality(data)
    IN  [ id            |-> ToString(clock),
          name          |-> name,
          uploadDate    |-> clock,
          data          |-> data,
          status        |-> IF qualityIssues > 0 THEN "error" ELSE "success",
          qualityIssues |-> qualityIssues ]

\* handleFileSelect up to the await of file.text(): the extension check and
\* setIsProcessing(true). The drop zone and the Browse button take no file
\* while isProcessing.
StartUpload(name, content) ==
    /\ ~isProcessing
    /\ upload = Idle
    /\ now < MaxClock
    /\ IF ~endsWith(toLowerCase(name), sCsvSuffix)
       THEN /\ toast' = "Invalid file format"
            /\ UNCHANGED <<isProcessing, upload>>
       ELSE /\ isProcessing' = TRUE
            /\ upload' = [pc |-> "reading", name |-> name, content |-> content]
            /\ UNCHANGED toast
    /\ UNCHANGED <<uploadedFiles, selectedFile, parsed, now, report, viewVars, preview>>

\* a variant of the rejection that returns without setIsProcessing(false)
ReadDoneStaysProcessing ==
    /\ upload.pc = "reading"
    /\ LET data == parseCSV(upload.content)
       IN  /\ parsed' = [content |-> upload.content, data |-> data]
           /\ IF Len(data) = 0
              THEN /\ toast' = "Invalid CSV format"
                   /\ upload' = Idle
                   /\ UNCHANGED isProcessing
              ELSE /\ upload' = [pc |-> "delayed", file |-> MakeFile(upload.name, data, now),
                                   listed |-> uploadedFiles]
                   /\ UNCHANGED <<toast, isProcessing>>
    /\ UNCHANGED <<uploadedFiles, selectedFile, now, report, viewVars, preview>>

\* a variant that also rejects a text whose rows have defects
ReadDoneRejectsDefects ==
    /\ upload.pc = "reading"
    /\ LET data == parseCSV(upload.content)
       IN  /\ parsed' = [content |-> upload.content, data |-> data]
           /\ IF Len(data) = 0 \/ checkDataQuality(data) > 0
              THEN /\ toast' = "Invalid CSV format"
                   /\ isProcessing' = FALSE
                   /\ upload' = Idle
              ELSE /\ upload' = [pc |-> "delayed", file |-> MakeFile(upload.name, data, now),
                                   listed |-> uploadedFiles]
                   /\ UNCHANGED <<toast, isProcessing>>
    /\ UNCHANGED <<uploadedFiles, selectedFile, now, report, viewVars, preview>>

\* handleFileSelect from the resolution of file.text() to the setTimeout;
\* listed is the collection of the render in which the timeout is set
ReadDone ==
    /\ upload.pc = "reading"
    /\ LET data == parseCSV(upload.content)
       IN  /\ parsed' = [content |-> upload.content, data |-> data]
           /\ IF Len(data) = 0
              THEN /\ toast' = "Invalid CSV format"
                   /\ isProcessing' = FALSE
                   /\ upload' = Idle
              ELSE /\ upload' = [pc |-> "delayed", file |-> MakeFile(upload.name, data, now),
                                   listed |-> uploadedFiles]
                   /\ UNCHANGED <<toast, isProcessing>>
    /\ UNCHANGED <<uploadedFiles, selectedFile, now, report, viewVars, preview>>

\* handleFileSelect when file.text() rejects: the catch block
ReadFail ==
    /\ upload.pc = "reading"
    /\ isProcessing' = FALSE
    /\ toast' = "Upload failed"
    /\ upload' = Idle
    /\ UNCHANGED <<uploadedFiles, selectedFile, parsed, now, report, viewVars, preview>>

\* a variant of handleFileUpload that appends to the collection of the
\* render in which the timeout was set: setUploadedFiles([...uploadedFiles, file])
handleFileUploadStale(file) ==
    /\ uploadedFiles' = Append(upload.listed, file)
    /\ selectedFile' = file

\* a variant of handleFileUpload without setSelectedFile(file)
handleFileUploadKeepsSelection(file) ==
    /\ uploadedFiles' = Append(uploadedFiles, file)
    /\ UNCHANGED selectedFile

\* Index.handleFileUpload
handleFileUpload(file) ==
    /\ uploadedFiles' = Append(uploadedFiles, file)
    /\ selectedFile' = file

\* the setTimeout callback, run once the 1500 ms delay has passed
UploadTimeout ==
    /\ upload.pc = "delayed"
    /\ handleFileUpload(upload.file)
    /\ isProcessing' = FALSE
    /\ toast' = "File uploaded successfully"
    /\ upload' = Idle
    /\ now' = now + 1
    /\ report' = Render(selectedFile')
    /\ MountView
    /\ RenderPreview
    /\ UNCHANGED parsed

\* Index.handleFileSelect, from a click on the i-th file of FileManager
FileSelect(i) ==
    /\ i \in 1..Len(uploadedFiles)
    /\ selectedFile' = uploadedFiles[i]
    /\ report' = Render(selectedFile')
    /\ MountView
    /\ RenderPreview
    /\ UNCHANGED <<uploadedFiles, isProcessing, upload, parsed, toast, now>>

\* a variant of handleFileDelete that clears the selection whichever file
\* is deleted
FileDeleteDeselects(i) ==
    /\ i \in 1..Len(uploadedFiles)
    /\ LET fileId == uploadedFiles[i].id
           Kept(f) == f.id # fileId
       IN  /\ uploadedFiles' = SelectSeq(uploadedFiles, Kept)
           /\ selectedFile' = NoFile
    /\ report' = Render(selectedFile')
    /\ MountView
    /\ RenderPreview
    /\ UNCHANGED <<isProcessing, upload, parsed, toast, now>>

\* Index.handleFileDelete, from the Delete button of the i-th file
FileDelete(i) ==
    /\ i \in 1..Len(uploadedFiles)
    /\ LET fileId == uploadedFiles[i].id
           Kept(f) == f.id # fileId
       IN  /\ uploadedFiles' = SelectSeq(uploadedFiles, Kept)
           /\ selectedFile' = IF selectedFile # NoFile /\ selectedFile.id = fileId
                              THEN NoFile ELSE selectedFile
    /\ report' = Render(selectedFile')
    /\ MountView
    /\ RenderPreview
    /\ UNCHANGED <<isProcessing, upload, parsed, toast, now>>

\* what a handler of DataPreview leaves alone: the state of Index and of
\* FileUpload, and the quality report
indexVars == <<uploadedFiles, selectedFile, isProcessing, upload, parsed, toast, now, report>>

sAll == <<"a","l","l">>

\* the onChange of the search box
SearchChange(value) ==
    /\ preview.mounted
    /\ value # searchTerm
    /\ searchTerm' = value
    /\ currentPage' = 1
    /\ UNCHANGED <<projIdFilter, sourceFilter, sortField, sortDirection, indexVars>>
    /\ RenderPreview

\* the onValueChange of the project select: its items are "all" and the
\* project ids of the file
ProjIdFilterChange(value) ==
    /\ preview.mounted
    /\ value # projIdFilter
    /\ \/ value = sAll
       \/ \E i \in 1..Len(UniqueValues(selectedFile.data, "proj_id")) :
             UniqueValues(selectedFile.data, "proj_id")[i] = value
    /\ projIdFilter' = IF value = sAll THEN <<>> ELSE value
    /\ currentPage' = 1
    /\ UNCHANGED <<searchTerm, sourceFilter, sortField, sortDirection, indexVars>>
    /\ RenderPreview

\* the onValueChange of the source select: its items are "all" and the
\* sources of the file
SourceFilterChange(value) ==
    /\ preview.mounted
    /\ value # sourceFilter
    /\ \/ value = sAll
       \/ \E i \in 1..Len(UniqueValues(selectedFile.data, "source")) :
             UniqueValues(selectedFile.data, "source")[i] = value
    /\ sourceFilter' = IF value = sAll THEN <<>> ELSE value
    /\ currentPage' = 1
    /\ UNCHANGED <<searchTerm, projIdFilter, sortField, sortDirection, indexVars>>
    /\ RenderPreview

\* a variant of the toggle that goes from descending back to ascending
SortToggleTwoStates(field, direction, clicked) ==
    IF field = clicked
    THEN IF direction = "asc" THEN [field |-> field, direction |-> "desc"]
         ELSE [field |-> field, direction |-> "asc"]
    ELSE [field |-> clicked, direction |-> "asc"]

\* the sort field and direction handleSort sets for a click on the header
\* of the column clicked
SortToggle(field, direction, clicked) ==
    IF field = clicked
    THEN IF direction = "asc" THEN [field |-> field, direction |-> "desc"]
         ELSE IF direction = "desc" THEN [field |-> null, direction |-> null]
         ELSE [field |-> field, direction |-> "asc"]
    ELSE [field |-> clicked, direction |-> "asc"]

\* a variant of handleSort without setCurrentPage(1)
handleSortKeepsPage(field) ==
    /\ preview.mounted
    /\ sortField' = SortToggle(sortField, sortDirection, field).field
    /\ sortDirection' = SortToggle(sortField, sortDirection, field).direction
    /\ UNCHANGED <<currentPage, searchTerm, projIdFilter, sourceFilter, indexVars>>
    /\ RenderPreview

\* DataPreview.handleSort, from a click on the header of a column
handleSort(field) ==
    /\ preview.mounted
    /\ sortField' = SortToggle(sortField, sortDirection, field).field
    /\ sortDirection' = SortToggle(sortField, sortDirection, field).direction
    /\ currentPage' = 1
    /\ UNCHANGED <<searchTerm, projIdFilter, sourceFilter, indexVars>>
    /\ RenderPreview

\* a variant of clearFilters without setSortDirection(null)
clearFiltersKeepsDirection ==
    /\ preview.mounted
    /\ searchTerm' = <<>>
    /\ projIdFilter' = <<>>
    /\ sourceFilter' = <<>>
    /\ sortField' = null
    /\ currentPage' = 1
    /\ UNCHANGED <<sortDirection, indexVars>>
    /\ RenderPreview

\* DataPreview.clearFilters
clearFilters ==
    /\ preview.mounted
    /\ searchTerm' = <<>>
    /\ projIdFilter' = <<>>
    /\ sourceFilter' = <<>>
    /\ sortField' = null
    /\ sortDirection' = null
    /\ currentPage' = 1
    /\ UNCHANGED indexVars
    /\ RenderPreview

\* the Previous button, shown while there is more than one page
PreviousPage ==
    /\ preview.mounted
    /\ preview.totalPages > 1
    /\ currentPage # 1
    /\ currentPage' = IF currentPage - 1 > 1 THEN currentPage - 1 ELSE 1
    /\ UNCHANGED <<searchTerm, projIdFilter, sourceFilter, sortField, sortDirection, indexVars>>
    /\ RenderPreview

\* the Next button, shown while there is more than one page
NextPage ==
    /\ preview.mounted
    /\ preview.totalPages > 1
    /\ currentPage # preview.totalPages
    /\ currentPage' = IF currentPage + 1 < preview.totalPages
                      THEN currentPage + 1 ELSE preview.totalPages
    /\ UNCHANGED <<searchTerm, projIdFilter, sourceFilter, sortField, sortDirection, indexVars>>
    /\ RenderPreview

\* the page buttons: one for each of the first five pages, and one for the
\* last page when there are more than five
GoToPage(page) ==
    /\ preview.mounted
    /\ preview.totalPages > 1
    /\ \/ page \in 1..(IF preview.totalPages < 5 THEN preview.totalPages ELSE 5)
       \/ preview.totalPages > 5 /\ page = preview.totalPages
    /\ currentPage' = page
    /\ UNCHANGED <<searchTerm, projIdFilter, sourceFilter, sortField, sortDirection, indexVars>>
    /\ RenderPreview

Init ==
    /\ uploadedFiles = <<>>
    /\ selectedFile = NoFile
    /\ isProcessing = FALSE
    /\ upload = Idle
    /\ parsed = [content |-> <<>>, data |-> <<>>]
    /\ toast = "none"
    /\ now = 0
    /\ report = Render(NoFile)
    /\ InitialView
    /\ preview = [mounted |-> FALSE]

----------------------------------------------------------------------------
(* Inputs: file names and file texts.                                      *)

RECURSIVE Join(_, _)
Join(parts, sep) ==
    IF parts = <<>> THEN <<>>
    ELSE IF Len(parts) = 1 THEN parts[1]
    ELSE parts[1] \o <<sep>> \o Join(Tail(parts), sep)

Line(cells) == Join(cells, ",")
Text(lines) == Join(lines, "\n")

\* all sequences of at most n elements of S
RECURSIVE SeqsUpTo(_, _)
SeqsUpTo(S, n) ==
    IF n = 0 THEN {<<>>}
    ELSE LET shorter == SeqsUpTo(S, n - 1)
         IN  shorter \cup {Append(q, x) : q \in {r \in shorter : Len(r) = n - 1}, x \in S}

Repeat(x, n) == [i \in 1..n |-> x]

FileNames == { <<"d",".","c","s","v">>, <<"D",".","C","S","V">>, <<"d",".","t","x","t">> }

hCanon    == Line(<<sProjId, sQuestion, sOutput, sUpdated, sSource>>)
hPermuted == Line(<<sSource, sProjId, sQuestion, sOutput, sUpdated>>)
hMixed    == Line(<< <<" ","P","r","o","j","_","I","D"," ">>, <<"Q","U","E","S","T","I","O","N">>,
                     <<"O","u","t","p","u","t"," ">>, sUpdated, <<"S","o","u","r","c","e","\r">> >>)
hNoProj   == Line(<< <<"i","d">>, sQuestion, sOutput, sUpdated, sSource >>)
hShort    == Line(<< sOutput, sQuestion >>)
hExtra    == Line(<< <<"n">>, sProjId, sQuestion, sOutput, sUpdated, sSource >>)

Headers == {hCanon, hPermuted, hMixed, hNoProj, hShort, hExtra}

ca == <<"a">>
cb == <<"b">>
cc == <<"c">>
cd == <<"d">>
ce == <<"e">>
cf == <<"f">>

\* data lines of the parser family: five distinct values, with values
\* emptied or padded, lines too short, too long and blank
ParserDataLines ==
    { Line(<<ca, cb, cc, cd, ce>>),
      Line(<<<<>>, cb, cc, cd, ce>>),
      Line(<<ca, cb, <<>>, cd, ce>>),
      Line(<<ca, cb, cc, cd, <<>>>>),
      Line(<<<<>>, <<>>, <<>>, <<>>, <<>>>>),
      Line(<< <<" ","a"," ">>, <<" ","b">>, cc, cd, <<"e"," ","\r">> >>),
      Line(<<ca, cb, cc>>),
      Line(<<ca, cb, cc, cd>>),
      Line(<<ca, cb, cc, cd, ce, cf>>),
      <<>>,
      <<" ", "\r">> }

\* texts without any non-blank line
BlankTexts == { <<>>, <<"\n">>, <<" ", "\n", "\r", "\n">> }

ParserTexts ==
    BlankTexts \cup
    { Text(<<h>> \o ls) : h \in Headers, ls \in SeqsUpTo(ParserDataLines, MaxDataLines) }

sPa   == <<"P","a">>
sSa   == <<"S","a">>
sOk   == <<"o","k">>
sAb   == <<"a","b">>
sLong == <<"a","b","c","d","e","f","g","h","i","j">>
sXq   == <<"x","?">>
sBad  == <<"b","a","d">>

\* data lines of the quality family, under the canonical header: every
\* combination of a question, an output and a date of each kind, two lines
\* with an empty project id or source, and a line whose only defect is a
\* source made of a space
QualityDataLines ==
    { Line(<<sPa, q, o, u, sSa>>) :
        q \in {<<>>, sQuestionMark, sAb, sLong},
        o \in {<<>>, sOk, sXq},
        u \in {<<>>, d2024, sBad} }
    \cup { Line(<<<<>>, <<>>, <<>>, <<>>, <<>>>>), Line(<<<<>>, sLong, sOk, d2024, <<" ">>>>),
           Line(<<sPa, sLong, sOk, d2024, <<" ">>>>) }

QualityTexts ==
    { Text(<<hCanon>> \o ls) : ls \in SeqsUpTo(QualityDataLines, MaxQualityRows) }

IngestTexts == ParserTexts \cup QualityTexts

\* data lines of the score family: a clean row, a row with one issue and a
\* row with three issues
lClean == Line(<<sPa, sLong, sOk, d2024, sSa>>)
lOne   == Line(<<sPa, sAb, sOk, d2024, sSa>>)
lThree == Line(<<sPa, sQuestionMark, sXq, d2023, sSa>>)

\* the row sequences of the score family: up to MaxScoreRows rows, clean
\* rows followed by rows of one of the two other kinds; the empty sequence
\* is one of them
ScoreData ==
    LET row(l) == MakeRow(LineValues(hCanon), LineValues(l))
    IN  { Repeat(row(lClean), i) \o Repeat(row(l), k) :
            l \in {lOne, lThree},
            <<i, k>> \in { t \in (0..MaxScoreRows) \X (0..MaxScoreRows) :
                             t[1] + t[2] <= MaxScoreRows } }

\* the rows of the query family: they share project ids, questions, outputs
\* and sources two by two, in different cases of the letters, and hold
\* letters and digits only
sPaLower == <<"p","a">>
sSaLower == <<"s","a">>
sNo      == <<"n","o">>
QueryRows ==
    { [proj_id |-> sPa,      question |-> <<"x","a","B">>, output |-> sOk,
       updated |-> d2024,    source   |-> sSa],
      [proj_id |-> sPaLower, question |-> sNo,             output |-> <<"A","B">>,
       updated |-> d2023,    source   |-> sSa],
      [proj_id |-> sPa,      question |-> sNo,             output |-> sOk,
       updated |-> d2024,    source   |-> sSaLower] }

\* the row sequences of the query family
QueryData == SeqsUpTo(QueryRows, MaxQueryRows) \ {<<>>}

\* the i-th row of a file of the paged family: the questions are numbered,
\* the other fields alternate
PagedRow(i) ==
    [ proj_id  |-> IF i % 2 = 1 THEN sPa ELSE sPaLower,
      question |-> <<"q", Digit[(i \div 10) + 1], Digit[(i % 10) + 1]>>,
      output   |-> IF i % 3 = 0 THEN <<"A","B">> ELSE sOk,
      updated  |-> IF i % 4 < 2 THEN d2024 ELSE d2023,
      source   |-> sSa ]

PagedData(n) == [i \in 1..n |-> PagedRow(i)]

\* the lengths of the files of the paged family: one full page, one row
\* more, and two full pages and some rows
PagedSizes == {itemsPerPage, itemsPerPage + 1, 2 * itemsPerPage + MaxExtraRows}

\* the search texts typed
SearchTerms == {<<>>, <<"A","b">>, sPaLower}

\* the states of the sort: none, or a column and a direction
SortStates ==
    {<<null, null>>} \cup ({RowKeys[i] : i \in 1..Len(RowKeys)} \X {"asc", "desc"})

\* the view states of the query family: search text, project filter,
\* source filter, sort state, page
QueryViews ==
    (SearchTerms \cup {<<"A">>, <<"2","0">>}) \X {<<>>, sPa, sPaLower} \X {<<>>, sSaLower}
    \X SortStates \X {1}

\* the view states of the paged family
PagedViews ==
    {<<>>, <<"A","b">>} \X {<<>>} \X {<<>>}
    \X {<<null, null>>, <<"question", "desc">>, <<"proj_id", "asc">>} \X (1..MaxPage)

\* the text uploaded in the runs of the view: a file of two rows, one of a
\* project whose id is the word all
ViewTexts == { Text(<<hCanon, Line(<<sAll, sNo, sOk, d2023, sSa>>), lClean>>) }

\* the texts uploaded in the application runs
AppTexts ==
    { <<"\n">>,
      hCanon,
      Text(<<hCanon, lClean>>),
      Text(<<hCanon, Line(<<ca, cb, cc>>)>>),
      Text(<<hCanon, Line(<<sPa, <<>>, sOk, d2024, sSa>>), lThree>>) }

----------------------------------------------------------------------------
(* Specifications.                                                         *)

\* the application: uploads, selections and deletions in any order
Next ==
    \/ \E name \in FileNames, content \in AppTexts : StartUpload(name, content)
    \/ ReadDone
    \/ ReadFail
    \/ UploadTimeout
    \/ \E i \in 1..Len(uploadedFiles) : FileSelect(i)
    \/ \E i \in 1..Len(uploadedFiles) : FileDelete(i)

Spec == Init /\ [][Next]_vars

\* the ingestion of one file, the first of a session, over the parser and
\* quality families of texts
IngestUpload ==
    /\ toast = "none"
    /\ \E content \in IngestTexts : StartUpload(<<"d",".","c","s","v">>, content)

NextIngest ==
    \/ IngestUpload
    \/ ReadDone
    \/ UploadTimeout

SpecIngest == Init /\ [][NextIngest]_vars

\* the quality report as a function of its file prop, over the score family
InitQuality ==
    /\ \E data \in ScoreData :
          /\ selectedFile = MakeFile(<<"d",".","c","s","v">>, data, 0)
          /\ uploadedFiles = <<selectedFile>>
    /\ isProcessing = FALSE
    /\ upload = Idle
    /\ parsed = [content |-> <<>>, data |-> <<>>]
    /\ toast = "none"
    /\ now = 1
    /\ report = Render(NoFile)
    /\ InitialView
    /\ preview = [mounted |-> FALSE]

\* the render of QualityCheck for the file it is given
QualityCheck ==
    /\ selectedFile # NoFile
    /\ ~report.mounted
    /\ report' = Render(selectedFile)
    /\ UNCHANGED <<uploadedFiles, selectedFile, isProcessing, upload, parsed, toast, now,
                   viewVars, preview>>

SpecQuality == InitQuality /\ [][QualityCheck]_vars

\* the query as a function of the file and the view state, over the query
\* and the paged families
InitQuery ==
    /\ \E input \in (QueryData \X QueryViews)
                    \cup ({PagedData(n) : n \in PagedSizes} \X PagedViews) :
          /\ selectedFile = MakeFile(<<"d",".","c","s","v">>, input[1], 0)
          /\ searchTerm = input[2][1]
          /\ projIdFilter = input[2][2]
          /\ sourceFilter = input[2][3]
          /\ sortField = input[2][4][1]
          /\ sortDirection = input[2][4][2]
          /\ currentPage = input[2][5]
    /\ uploadedFiles = <<selectedFile>>
    /\ isProcessing = FALSE
    /\ upload = Idle
    /\ parsed = [content |-> <<>>, data |-> <<>>]
    /\ toast = "none"
    /\ now = 1
    /\ report = Render(NoFile)
    /\ preview = [mounted |-> FALSE]

\* the render of DataPreview for the file and the state it is given
Query ==
    /\ ~preview.mounted
    /\ preview' = Preview(selectedFile, searchTerm, projIdFilter, sourceFilter,
                          sortField, sortDirection, currentPage)
    /\ UNCHANGED <<indexVars, viewVars>>

SpecQuery == InitQuery /\ [][Query]_vars

\* the view of a long file: the handlers of DataPreview, with selections,
\* deletions and the upload of a second file
InitView ==
    /\ selectedFile = MakeFile(<<"d",".","c","s","v">>,
                               PagedData(itemsPerPage + MaxViewExtraRows), 0)
    /\ uploadedFiles = <<selectedFile>>
    /\ isProcessing = FALSE
    /\ upload = Idle
    /\ parsed = [content |-> <<>>, data |-> <<>>]
    /\ toast = "none"
    /\ now = MaxClock - 1
    /\ report = Render(selectedFile)
    /\ InitialView
    /\ preview = Preview(selectedFile, <<>>, <<>>, <<>>, null, null, 1)

NextView ==
    \/ \E value \in SearchTerms : SearchChange(value)
    \/ \E value \in {sAll, sPa, sPaLower} : ProjIdFilterChange(value)
    \/ \E value \in {sAll, sSa} : SourceFilterChange(value)
    \/ \E field \in {RowKeys[i] : i \in 1..Len(RowKeys)} : handleSort(field)
    \/ clearFilters
    \/ PreviousPage
    \/ NextPage
    \/ \E page \in 1..MaxPage : GoToPage(page)
    \/ \E content \in ViewTexts : StartUpload(<<"d",".","c","s","v">>, content)
    \/ ReadDone
    \/ UploadTimeout
    \/ \E i \in 1..Len(uploadedFiles) : FileSelect(i)
    \/ \E i \in 1..Len(uploadedFiles) : FileDelete(i)

SpecView == InitView /\ [][NextView]_vars

----------------------------------------------------------------------------
(* Notions the claims are stated in.                                       *)

\* the number of commas of a line: one less than its comma-separated values
CommaCount(line) == Cardinality({i \in 1..Len(line) : line[i] = ","})

\* a line with at least 5 comma-separated values
HasFiveValues(line) == CommaCount(line) >= 4

\* the non-blank lines after the header
DataLines(content) ==
    LET ls == NonBlankLines(content) IN SubSeq(ls, 2, Len(ls))

\* the last upload was rejected as empty or incorrectly formatted
Rejected == toast = "Invalid CSV format" /\ upload = Idle

\* the row has at least one defect of the per-file summary
Defective(row) ==
    \/ \E key \in {"proj_id", "question", "output", "updated", "source"} : row[key] = <<>>
    \/ Len(row.question) < 10
    \/ row.question = <<"?">>
    \/ includesChar(row.output, "?")
    \/ (row.updated # <<>> /\ ~isValidDate(row.updated))

DefectiveRows(data) == Cardinality({i \in 1..Len(data) : Defective(data[i])})

\* the checks of the per-file summary that a row fails
FailedChecks(row) ==
       (IF \E key \in {"proj_id", "question", "output", "updated", "source"} : row[key] = <<>>
        THEN {"empty"} ELSE {})
  \cup (IF Len(row.question) < 10 \/ row.question = <<"?">> THEN {"question"} ELSE {})
  \cup (IF row.output = <<>> \/ includesChar(row.output, "?") THEN {"output"} ELSE {})
  \cup (IF row.updated # <<>> /\ ~isValidDate(row.updated) THEN {"date"} ELSE {})

\* the number of pairs of a row and a check it fails
SumFailedChecks(data) ==
    Cardinality({p \in (1..Len(data)) \X {"empty", "question", "output", "date"} :
                    p[2] \in FailedChecks(data[p[1]])})

\* the files the application holds: the collection and the pending upload
StoredFiles ==
    {uploadedFiles[i] : i \in 1..Len(uploadedFiles)}
    \cup (IF upload.pc = "delayed" THEN {upload.file} ELSE {})

\* the issues of the report for the row at 1-based position i, of one type
RowIssuesOfType(i, type) ==
    LET Is(issue) == issue.rowIndex = i + 1 /\ issue.type = type
    IN  SelectSeq(report.issues, Is)

\* the number of issues of the report for row i, of one type and one column
CountIssues(i, type, column) ==
    Cardinality({k \in 1..Len(report.issues) :
        /\ report.issues[k].rowIndex = i + 1
        /\ report.issues[k].type = type
        /\ report.issues[k].column = column})

----------------------------------------------------------------------------
(* Claims.                                                                 *)

\* C1: ingesting a text with fewer than 2 non-blank lines is rejected: the
\* rejection toast is shown, no upload stays pending (so the upload callback
\* is never invoked for it), the file collection and the selection are
\* unchanged and the processing flag is false again.
C1_ShortTextRejected ==
    [][ (ReadDone /\ Len(NonBlankLines(upload.content)) < 2)
        => /\ toast' = "Invalid CSV format"
           /\ upload' = Idle
           /\ isProcessing' = FALSE
           /\ uploadedFiles' = uploadedFiles
           /\ selectedFile' = selectedFile ]_vars

C1_Witness ==
    /\ Rejected
    /\ Len(NonBlankLines(parsed.content)) < 2
    /\ ~isProcessing
    /\ Len(uploadedFiles) > 0
    /\ selectedFile # NoFile

\* C2 (as claimed): a rejected text always has fewer than 2 non-blank lines,
\* that is, every text with at least 2 non-blank lines yields a FileRecord.
C2_OnlyShortTextRejected ==
    Rejected => Len(NonBlankLines(parsed.content)) < 2

\* C2 (amended): ingestion is aborted exactly when the parser returns no row,
\* that is, when no non-blank line after the header has at least 5 values
\* (which includes the texts with fewer than 2 non-blank lines); every other
\* text yields a FileRecord with one row or more, whatever defects its rows
\* have and whatever short lines it also contains.
C2_RejectedIffNoRow ==
    /\ Rejected =>
          /\ Len(parsed.data) = 0
          /\ \A i \in 1..Len(DataLines(parsed.content)) :
                ~HasFiveValues(DataLines(parsed.content)[i])
    /\ upload.pc = "delayed" =>
          /\ \E i \in 1..Len(DataLines(parsed.content)) :
                HasFiveValues(DataLines(parsed.content)[i])
          /\ upload.file.data = parsed.data
          /\ Len(upload.file.data) > 0

C2_Witness ==
    /\ upload.pc = "delayed"
    /\ Len(DataLines(parsed.content)) = 2
    /\ ~HasFiveValues(DataLines(parsed.content)[1])
    /\ Len(upload.file.data) = 1
    /\ upload.file.qualityIssues > 0

\* C3: for a text with at least 2 non-blank lines, parse returns exactly one
\* row per non-blank data line with at least 5 values, in line order; each
\* data line with fewer values is absent and lowers the count by one.
C3_OneRowPerFullLine ==
    Len(NonBlankLines(parsed.content)) >= 2 =>
        LET lines == DataLines(parsed.content)
            full  == SelectSeq(lines, HasFiveValues)
            short == {i \in 1..Len(lines) : ~HasFiveValues(lines[i])}
            names == HeaderNames(NonBlankLines(parsed.content)[1])
        IN  /\ Len(parsed.data) = Len(full)
            /\ Len(parsed.data) = Len(lines) - Cardinality(short)
            /\ \A k \in 1..Len(full) :
                  parsed.data[k] = MakeRow(names, LineValues(full[k]))

C3_Witness ==
    /\ upload.pc = "delayed"
    /\ Len(DataLines(parsed.content)) = 2
    /\ ~HasFiveValues(DataLines(parsed.content)[1])
    /\ HasFiveValues(DataLines(parsed.content)[2])
    /\ Len(parsed.data) = 1

\* C4 (as claimed): when the header names a recognised column, the field of
\* every parsed row is the trimmed value at that column's index in the data
\* line, also when that value is empty; the positional fallback is used only
\* when the name is absent from the header.
C4_NamedColumnValue ==
    Len(NonBlankLines(parsed.content)) >= 2 =>
        LET full  == SelectSeq(DataLines(parsed.content), HasFiveValues)
            names == HeaderNames(NonBlankLines(parsed.content)[1])
            Column(key) == CASE key = "proj_id"  -> sProjId
                             [] key = "question" -> sQuestion
                             [] key = "output"   -> sOutput
                             [] key = "updated"  -> sUpdated
                             [] key = "source"   -> sSource
        IN  \A k \in 1..Len(parsed.data) :
            \A key \in {"proj_id", "question", "output", "updated", "source"} :
                LET h == indexOf(names, Column(key))
                    values == LineValues(full[k])
                IN  (h >= 0 /\ h < Len(values)) => parsed.data[k][key] = values[h + 1]

\* C5 (as claimed): the quality score is 100 for no rows and otherwise
\* 100 * (totalRows - issueCount) / totalRows rounded to the nearest integer,
\* a positive half going up (as every usual rounding has it; a negative half
\* may go either way), with issueCount the length of the issue list; it is
\* not clamped, so it is negative once issueCount exceeds totalRows by more
\* than totalRows / 200.
C5_QualityScore ==
    report.mounted =>
        LET t == Len(selectedFile.data)
            n == Len(report.issues)
            s == report.qualityScore
            d == 2 * (100 * (t - n) - s * t)
        IN  /\ t = 0 => s = 100
            /\ t > 0 => /\ -t <= d /\ d <= t
                        /\ n < t => d < t
            /\ (t > 0 /\ 200 * (n - t) > t) => s < 0

\* C6 (as claimed): the stored summary count is a tally of one per defective
\* row: it equals the number of defective rows and never exceeds the number
\* of rows.
C6_OnePerDefectiveRow ==
    \A f \in StoredFiles :
        /\ f.qualityIssues = DefectiveRows(f.data)
        /\ f.qualityIssues <= Len(f.data)

\* C6 (amended): the stored summary count adds, for each row, one for each of
\* the four checks the row fails (an empty field; a question shorter than 10
\* or only "?"; an output missing or containing "?"; an invalid date), so
\* each row adds at most 4, and the count lies between the number of
\* defective rows and four times the number of rows.
C6_OnePerFailedCheck ==
    \A f \in StoredFiles :
        /\ f.qualityIssues = SumFailedChecks(f.data)
        /\ DefectiveRows(f.data) <= f.qualityIssues
        /\ f.qualityIssues <= Cardinality({"empty", "question", "output", "date"}) * Len(f.data)
        /\ (f.qualityIssues = 0) = (DefectiveRows(f.data) = 0)

C6_Witness ==
    \E i \in 1..Len(uploadedFiles) :
        /\ Len(uploadedFiles[i].data) = 1
        /\ uploadedFiles[i].qualityIssues = 4

\* the number of rows whose question is empty and whose other fields are not
OnlyQuestionEmptyRows(data) ==
    Cardinality({i \in 1..Len(data) :
        /\ data[i].question = <<>>
        /\ \A key \in {"proj_id", "output", "updated", "source"} : data[i][key] # <<>>})

\* C7 (as claimed): for every row sequence produced by the parser the summary
\* count is at most the number of entries of the full issue list.
C7_SummaryAtMostIssues ==
    report.mounted => selectedFile.qualityIssues <= Len(report.issues)

\* C7 (amended): the summary count is at most the number of entries of the
\* full issue list plus the number of rows whose question is empty while
\* their other four fields are not; it is at most the number of entries
\* whenever the file has no such row.
C7_SummaryAtMostIssuesPlusEmptyQuestions ==
    report.mounted =>
        selectedFile.qualityIssues
            <= Len(report.issues) + OnlyQuestionEmptyRows(selectedFile.data)

C7_Witness ==
    /\ report.mounted
    /\ OnlyQuestionEmptyRows(selectedFile.data) = 1
    /\ selectedFile.qualityIssues = Len(report.issues) + 1

\* C8: for every row, analyze emits exactly one empty-field issue for each
\* field whose trimmed value is empty, naming that field, and none for the
\* other fields: as many empty-field issues as the row has empty fields.
C8_OneIssuePerEmptyField ==
    report.mounted =>
        \A i \in 1..Len(selectedFile.data) :
            /\ \A key \in {"proj_id", "question", "output", "updated", "source"} :
                  CountIssues(i, "empty_cell", key)
                    = IF trim(selectedFile.data[i][key]) = <<>> THEN 1 ELSE 0
            /\ Len(RowIssuesOfType(i, "empty_cell"))
                  = Cardinality({key \in {"proj_id", "question", "output", "updated", "source"} :
                                    trim(selectedFile.data[i][key]) = <<>>})

C8_Witness ==
    /\ report.mounted
    /\ \E i \in 1..Len(selectedFile.data) :
          /\ \A key \in {"proj_id", "question", "output", "updated", "source"} :
                selectedFile.data[i][key] = <<>>
          /\ Len(RowIssuesOfType(i, "empty_cell")) = 5

\* C9: a question that is exactly "?" yields two short-question issues on the
\* question field, the one for the length (measured as 1) before the one for
\* the exact match; a non-empty question shorter than 10 characters that is
\* not "?" yields exactly one, with its length; a question of 10 characters
\* or more yields none.
C9_ShortQuestionIssues ==
    report.mounted =>
        \A i \in 1..Len(selectedFile.data) :
            LET question == selectedFile.data[i].question
                found == RowIssuesOfType(i, "short_question")
            IN  /\ \A k \in 1..Len(found) : found[k].column = "question"
                /\ question = <<"?">> =>
                      /\ Len(found) = 2
                      /\ found[1].message = <<"Question too short (", "1", " chars)">>
                      /\ found[2].message = <<"Question is only \"?\"">>
                /\ (question # <<>> /\ Len(question) < 10 /\ question # <<"?">>) =>
                      /\ Len(found) = 1
                      /\ found[1].message
                           = <<"Question too short (", ToString(Len(question)), " chars)">>
                /\ Len(question) >= 10 => Len(found) = 0

C9_Witness ==
    /\ report.mounted
    /\ \E i \in 1..Len(selectedFile.data) :
          /\ selectedFile.data[i].question = <<"?">>
          /\ Len(RowIssuesOfType(i, "short_question")) = 2

\* C10: an empty output yields an empty-field issue naming output and a
\* missing-output issue, and no flagged-output issue; a non-empty output
\* yields a flagged-output issue iff it contains "?", and no missing-output
\* issue.
C10_OutputIssues ==
    report.mounted =>
        \A i \in 1..Len(selectedFile.data) :
            LET output == selectedFile.data[i].output
            IN  /\ output = <<>> =>
                      /\ CountIssues(i, "empty_cell", "output") = 1
                      /\ Len(RowIssuesOfType(i, "missing_output")) = 1
                      /\ Len(RowIssuesOfType(i, "questionmark_output")) = 0
                /\ output # <<>> =>
                      /\ Len(RowIssuesOfType(i, "questionmark_output"))
                           = IF includesChar(output, "?") THEN 1 ELSE 0
                      /\ Len(RowIssuesOfType(i, "missing_output")) = 0

C10_Witness ==
    /\ report.mounted
    /\ \E i \in 1..Len(selectedFile.data) :
          /\ selectedFile.data[i].output = <<>>
          /\ CountIssues(i, "empty_cell", "output") = 1
          /\ Len(RowIssuesOfType(i, "missing_output")) = 1

\* the place of an issue's rule in the order of the rules
RuleRank(issue) ==
    CASE issue.type = "empty_cell"          -> 1
      [] issue.type = "invalid_date"        -> 2
      [] issue.type = "short_question"
           -> (IF issue.message = <<"Question is only \"?\"">> THEN 4 ELSE 3)
      [] issue.type = "missing_output"      -> 5
      [] issue.type = "questionmark_output" -> 6

\* the rule of the issue fires for the row
RuleFires(issue, row) ==
    CASE issue.type = "empty_cell"          -> row[issue.column] = <<>>
      [] issue.type = "invalid_date"        -> ~isValidDate(row.updated)
      [] issue.type = "short_question"      -> Len(row.question) < 10
      [] issue.type = "missing_output"      -> row.output = <<>>
      [] issue.type = "questionmark_output" -> includesChar(row.output, "?")

\* C11: every issue carries the line number i + 2 of a row i (0-based) for
\* which its rule fires, the issue list is ordered by non-decreasing line
\* number, and within one row the issues follow the order of the rules:
\* empty-field, invalid-date, short-question (length), short-question
\* (exact "?"), missing-output, flagged-output, each of the last five once
\* at most.
C11_IssueOrder ==
    report.mounted =>
        LET issues == report.issues
            data   == selectedFile.data
        IN  /\ \A k \in 1..Len(issues) :
                  /\ issues[k].rowIndex - 2 \in 0..(Len(data) - 1)
                  /\ RuleFires(issues[k], data[issues[k].rowIndex - 1])
            /\ \A k \in 1..(Len(issues) - 1) :
                  /\ issues[k].rowIndex <= issues[k + 1].rowIndex
                  /\ issues[k].rowIndex = issues[k + 1].rowIndex =>
                        /\ RuleRank(issues[k]) <= RuleRank(issues[k + 1])
                        /\ RuleRank(issues[k]) = RuleRank(issues[k + 1])
                              => RuleRank(issues[k]) = 1

C11_Witness ==
    /\ report.mounted
    /\ Len(selectedFile.data) = 2
    /\ \E k \in 1..(Len(report.issues) - 3) :
          /\ report.issues[k].rowIndex = 2
          /\ report.issues[k].type = "short_question"
          /\ report.issues[k + 1].rowIndex = 3
          /\ report.issues[k + 1].type = "empty_cell"
          /\ report.issues[k + 2].type = "invalid_date"
          /\ report.issues[k + 3].type = "short_question"

\* text holds term as a substring when capitals and small letters are taken
\* as the same
ContainsFold(text, term) ==
    \E i \in 0..(Len(text) - Len(term)) :
        \A k \in 1..Len(term) : ToLowerChar(text[i + k]) = ToLowerChar(term[k])

\* the rows of the result when the search text is empty and the rest of the
\* view state is as it is
Unsearched ==
    filteredData(selectedFile.data, <<>>, projIdFilter, sourceFilter, sortField, sortDirection)

\* C12: with a non-empty search text the result holds exactly the rows,
\* among those the other stages keep, whose question or output contains the
\* text as a substring, letters compared without case, whatever the other
\* three fields hold; with an empty search text the search stage keeps
\* every row.
C12_Search ==
    preview.mounted =>
        LET Keeps(row) == \/ ContainsFold(row.question, searchTerm)
                          \/ ContainsFold(row.output, searchTerm)
        IN  /\ searchTerm # <<>> => preview.filteredData = SelectSeq(Unsearched, Keeps)
            /\ searchTerm = <<>> => SearchRows(selectedFile.data, searchTerm) = selectedFile.data
            /\ searchTerm = <<>> => preview.filteredData = Unsearched

\* a search kept a row for its question in another case and a row for its
\* output, and dropped a row that holds the text in its project id and
\* source only
C12_Witness ==
    /\ preview.mounted
    /\ searchTerm = <<"A">>
    /\ projIdFilter = <<>> /\ sourceFilter = <<>> /\ sortField = null
    /\ Len(selectedFile.data) = 3
    /\ selectedFile.data[1].question = <<"x","a","B">>
    /\ selectedFile.data[2].output = <<"A","B">>
    /\ selectedFile.data[3].proj_id = sPa /\ selectedFile.data[3].source = sSaLower
    /\ preview.filteredData = SubSeq(selectedFile.data, 1, 2)

\* the items of a select other than its first, "all": the values of the
\* column in the file shown
SelectItems(key) ==
    IF selectedFile = NoFile THEN {}
    ELSE
    {UniqueValues(selectedFile.data, key)[i] :
        i \in 1..Len(UniqueValues(selectedFile.data, key))}

\* the rows of seq whose field key is value, in their order
RowsWith(seq, key, value) ==
    LET Keep(row) == row[key] = value
    IN  SelectSeq(seq, Keep)

\* C13: when a project id (a source) of the file is chosen in its select,
\* the result shown next holds exactly the rows that pass the other stages
\* and whose project id (source) is the chosen value, capitals and small
\* letters distinguished; choosing "all" removes that filter.
C13_ChosenValueFilters ==
    [][ /\ \A value \in SelectItems("proj_id") :
              ProjIdFilterChange(value) =>
                  preview'.filteredData =
                      RowsWith(filteredData(selectedFile.data, searchTerm, <<>>, sourceFilter,
                                            sortField, sortDirection), "proj_id", value)
        /\ \A value \in SelectItems("source") :
              SourceFilterChange(value) =>
                  preview'.filteredData =
                      RowsWith(filteredData(selectedFile.data, searchTerm, projIdFilter, <<>>,
                                            sortField, sortDirection), "source", value)
      ]_vars

\* the rows of the result before the sort stage
Unsorted ==
    filteredData(selectedFile.data, searchTerm, projIdFilter, sourceFilter, null, null)

\* the number of places of seq that hold x
Occurrences(seq, x) == Cardinality({i \in 1..Len(seq) : seq[i] = x})

\* C14: with a sort on a string field, ascending or descending, the result
\* is a permutation of the filtered rows, its rows follow one another in
\* the order of the field's values in the chosen direction, and the rows
\* that share a value stand in the order they have in the filtered rows.
C14_StableSort ==
    (preview.mounted /\ sortField \notin {null, "updated"} /\ sortDirection # null) =>
        LET result == preview.filteredData
            n      == Len(result)
        IN  /\ n = Len(Unsorted)
            /\ \A i \in 1..n : Occurrences(result, result[i]) = Occurrences(Unsorted, result[i])
            /\ \A i \in 1..n : \A j \in (i + 1)..n :
                   LET c == localeCompare(result[i][sortField], result[j][sortField])
                   IN  IF sortDirection = "asc" THEN c <= 0 ELSE c >= 0
            /\ \A i \in 1..n :
                   RowsWith(result, sortField, result[i][sortField])
                       = RowsWith(Unsorted, sortField, result[i][sortField])

\* a descending sort moved a row behind two different rows that share a
\* project id, which kept their order
C14_Witness ==
    /\ preview.mounted
    /\ sortField = "proj_id" /\ sortDirection = "desc"
    /\ Len(Unsorted) = 3
    /\ Unsorted[1].proj_id = sPa /\ Unsorted[2].proj_id = sPaLower /\ Unsorted[3].proj_id = sPa
    /\ Unsorted[1] # Unsorted[3]
    /\ preview.filteredData = <<Unsorted[1], Unsorted[3], Unsorted[2]>>

\* C15: the page shown for the 1-based page number p is the part of the
\* filtered and sorted sequence from index (p-1)*20 up to, not including,
\* index p*20, cut at the length of the sequence: at most 20 rows, and no
\* row for a page past the last; of 45 rows page 3 shows 5 and page 4 none.
C15_PageSlice ==
    preview.mounted =>
        LET filtered == preview.filteredData
            page     == preview.paginatedData
            first    == (currentPage - 1) * 20
            last     == IF currentPage * 20 < Len(filtered) THEN currentPage * 20
                        ELSE Len(filtered)
        IN  /\ Len(page) <= 20
            /\ Len(page) = IF last > first THEN last - first ELSE 0
            /\ \A k \in 1..Len(page) : page[k] = filtered[first + k]
            /\ (Len(filtered) = 45 /\ currentPage = 3) => Len(page) = 5
            /\ (Len(filtered) = 45 /\ currentPage = 4) => page = <<>>

\* the last page of a sorted file of two full pages and some rows: the rows
\* left over after the two full pages
C15_Witness ==
    /\ preview.mounted
    /\ sortField = "question" /\ sortDirection = "desc"
    /\ Len(preview.filteredData) = 2 * itemsPerPage + MaxExtraRows
    /\ currentPage = 3
    /\ Len(preview.paginatedData) = MaxExtraRows
    /\ preview.paginatedData[1] = preview.filteredData[2 * itemsPerPage + 1]
    /\ preview.paginatedData[1].question = <<"q", "0", ToString(MaxExtraRows)>>

\* C16: in every state of the view, whatever search edits, filter changes,
\* sort toggles, clearings, page moves, uploads and selections led to it,
\* the current page is at least 1 and at most the number of pages of the
\* filtered rows, taken as 1 when there is no row.
C16_PageInRange ==
    preview.mounted =>
        /\ currentPage >= 1
        /\ currentPage <= (IF preview.totalPages > 1 THEN preview.totalPages ELSE 1)

\* the columns of the table
Columns == {RowKeys[i] : i \in 1..Len(RowKeys)}

\* the sort state after one more click on the header of a column
Toggled(state, clicked) == SortToggle(state.field, state.direction, clicked)

\* C17: a click on the header of a column F sorts ascending on F when the
\* rows are not sorted or are sorted on another column, turns an ascending
\* sort on F into a descending one, and a descending sort on F into no
\* sort; so three clicks on F in a row, from a state not sorted on F, end
\* with no sort.
C17_SortCycle ==
    [][ \A F \in Columns :
          handleSort(F) =>
              LET after == [field |-> sortField', direction |-> sortDirection']
              IN  /\ sortField # F => after = [field |-> F, direction |-> "asc"]
                  /\ (sortField = F /\ sortDirection = "asc")
                         => after = [field |-> F, direction |-> "desc"]
                  /\ (sortField = F /\ sortDirection = "desc")
                         => after = [field |-> null, direction |-> null]
                  /\ sortField # F
                         => Toggled(Toggled(after, F), F) = [field |-> null, direction |-> null]
      ]_vars

\* the second click on the header of the question column: the rows are
\* shown in descending order of the question
C17_Witness ==
    /\ preview.mounted
    /\ sortField = "question" /\ sortDirection = "desc"
    /\ Len(preview.filteredData) = itemsPerPage + MaxViewExtraRows
    /\ preview.filteredData[1].question
           = PagedRow(itemsPerPage + MaxViewExtraRows).question

\* C18: every click on the header of a column, whatever the column, the
\* sort state and the page it is made from, leaves the current page at 1
\* and the search text, the project filter and the source filter as they
\* were.
C18_SortKeepsFilters ==
    [][ \A F \in Columns :
          handleSort(F) =>
              /\ currentPage' = 1
              /\ searchTerm' = searchTerm
              /\ projIdFilter' = projIdFilter
              /\ sourceFilter' = sourceFilter
      ]_vars

\* a sort is shown on the first page together with a search text and a
\* project filter
C18_Witness ==
    /\ preview.mounted
    /\ sortField = "output" /\ sortDirection = "asc"
    /\ searchTerm = <<"A","b">>
    /\ projIdFilter = sPaLower
    /\ currentPage = 1
    /\ Len(preview.filteredData) > 0

\* C19: the query leaves the rows of the file as they were, the same rows
\* in the same order, for every view state, a sort without search or filter
\* included; and run once more on the rows it left, with the same view
\* state, it gives the same filtered sequence and the same page.
C19_QueryKeepsInput ==
    preview.mounted =>
        LET again == PreviewOf(QueryArrays(preview.data, searchTerm, projIdFilter, sourceFilter,
                                           sortField, sortDirection), currentPage)
        IN  /\ preview.data = selectedFile.data
            /\ again.data = selectedFile.data
            /\ again.filteredData = preview.filteredData
            /\ again.paginatedData = preview.paginatedData

\* a sort with no search text and no filter gave the rows in another order
\* than the file holds them
C19_Witness ==
    /\ preview.mounted
    /\ searchTerm = <<>> /\ projIdFilter = <<>> /\ sourceFilter = <<>>
    /\ sortField = "question" /\ sortDirection = "desc"
    /\ Len(preview.filteredData) = Len(selectedFile.data)
    /\ preview.filteredData # selectedFile.data
    /\ preview.data = selectedFile.data

\* the number of the first j records of files whose id is not id
KeptUpTo(files, id, j) == Cardinality({m \in 1..j : files[m].id # id})

\* C20: no step changes a record of the collection: a step other than a
\* deletion leaves every record where it is, with its rows, metadata and
\* issue count, and a deletion by an id removes every record with that id,
\* keeps the other records in their order, and leaves no file selected
\* exactly when none was or the selected record had that id, the selected
\* record staying selected otherwise.
C20_RecordsKept ==
    [][ /\ \A i \in 1..Len(uploadedFiles) :
              FileDelete(i) =>
                  LET id == uploadedFiles[i].id
                  IN  /\ Len(uploadedFiles') = KeptUpTo(uploadedFiles, id, Len(uploadedFiles))
                      /\ \A j \in 1..Len(uploadedFiles) :
                             uploadedFiles[j].id # id =>
                                 uploadedFiles'[KeptUpTo(uploadedFiles, id, j)] = uploadedFiles[j]
                      /\ (selectedFile' = NoFile)
                             <=> (selectedFile = NoFile \/ selectedFile.id = id)
                      /\ selectedFile' # NoFile => selectedFile' = selectedFile
        /\ (~ \E i \in 1..Len(uploadedFiles) : FileDelete(i)) =>
              /\ Len(uploadedFiles') >= Len(uploadedFiles)
              /\ \A j \in 1..Len(uploadedFiles) : uploadedFiles'[j] = uploadedFiles[j]
      ]_vars

\* the second of three files was deleted while the third was selected: the
\* first and the third are left, in this order, and the third is selected
C20_Witness ==
    /\ Len(uploadedFiles) = 2
    /\ uploadedFiles[1].id = "0"
    /\ uploadedFiles[2].id = "2"
    /\ selectedFile = uploadedFiles[2]
    /\ report.mounted /\ preview.mounted

\* the selection is none or a record whose id a record of the collection has
SelectedIsListed ==
    \/ selectedFile = NoFile
    \/ \E i \in 1..Len(uploadedFiles) : uploadedFiles[i].id = selectedFile.id

\* C21: after any uploads, selections and deletions the selected file is
\* none or a record whose id is in the collection, and the record of an
\* upload that completes is the selected file right after.
C21_SelectionListed ==
    /\ []SelectedIsListed
    /\ [][ UploadTimeout =>
              /\ selectedFile' = upload.file
              /\ uploadedFiles'[Len(uploadedFiles')] = selectedFile' ]_vars

\* the second upload completed after the first file, then selected, was
\* deleted: the new record alone is in the collection, and selected
C21_Witness ==
    /\ Len(uploadedFiles) = 1
    /\ uploadedFiles[1].id = "1"
    /\ selectedFile = uploadedFiles[1]
    /\ upload = Idle
    /\ toast = "File uploaded successfully"

\* the records of a sequence of files
Records(files) == {files[i] : i \in 1..Len(files)}

\* the records deleted since the timeout of the pending upload was set
DeletedMeanwhile == Records(upload.listed) \ Records(uploadedFiles)

\* C22: whatever deletions and selections are made while the callback of
\* an upload is pending, once the callback has run the collection holds
\* the new record exactly once, none of the records deleted meanwhile, and
\* every other record, in its place.
C22_NoLostUpdate ==
    [][ UploadTimeout =>
          /\ Cardinality({i \in 1..Len(uploadedFiles') :
                              uploadedFiles'[i].id = upload.file.id}) = 1
          /\ upload.file \in Records(uploadedFiles')
          /\ \A r \in DeletedMeanwhile :
                 \A i \in 1..Len(uploadedFiles') : uploadedFiles'[i].id # r.id
          /\ \A i \in 1..Len(uploadedFiles) : uploadedFiles'[i] = uploadedFiles[i]
          /\ Records(upload.listed) \ DeletedMeanwhile \subseteq Records(uploadedFiles')
          /\ Len(uploadedFiles') = Len(uploadedFiles) + 1 ]_vars

\* the callback of the third upload is pending; since its timeout was set
\* the first file was deleted, and the second is the selected one
C22_Witness ==
    /\ upload.pc = "delayed"
    /\ Len(upload.listed) = 2
    /\ uploadedFiles = <<upload.listed[2]>>
    /\ selectedFile = uploadedFiles[1]
    /\ upload.file.id = "2"

\* C23: for the rows the parser produces, the count made at upload is zero
\* exactly when the quality report lists no issue: a record has the status
\* success and the badge Clean exactly when its report is empty, the status
\* error otherwise, and never the status processing.
C23_SummaryZeroIffNoIssue ==
    /\ \A f \in StoredFiles :
          LET issues == analyzeQuality(f.data)
          IN  /\ (f.qualityIssues = 0) <=> (issues = <<>>)
              /\ (f.status = "success") <=> (issues = <<>>)
              /\ (getStatusBadge(f) = "Clean") <=> (issues = <<>>)
              /\ (f.status = "error") <=> (issues # <<>>)
              /\ f.status # "processing"
    /\ report.mounted =>
          ((report.issues = <<>>) <=> (selectedFile.status = "success"))

\* a file whose row has an issue in the report only through a field that
\* the parser emptied by trimming it is stored with the status error
C23_Witness ==
    /\ report.mounted
    /\ Len(selectedFile.data) = 1
    /\ selectedFile.data[1] = [proj_id |-> sPa, question |-> sLong, output |-> sOk,
                                updated |-> d2024, source |-> <<>>]
    /\ \E i \in 1..Len(parsed.content) : parsed.content[i] = " "
    /\ selectedFile.status = "error"
    /\ getStatusBadge(selectedFile) = "issues"
    /\ report.issues # <<>>

\* C24: in every state of the view, after any clicks on column headers and
\* on Clear Filters, the sort field is unset exactly when the sort direction
\* is unset.
C24_FieldIffDirection ==
    (sortField = null) <=> (sortDirection = null)

\* the rows of one project are shown sorted on the source, descending,
\* after two clicks on its header
C24_Witness ==
    /\ preview.mounted
    /\ sortField = "source" /\ sortDirection = "desc"
    /\ projIdFilter = sPa
    /\ Len(preview.filteredData) > 1

====
